---------------------------- MODULE Spec2Model ----------------------------
(***************************************************************************)
(* Model of the single-channel LoRa gateway driver                         *)
(* src/home/pi/LoRa/dragino_gps_hat.cpp: the start-up sequence             *)
(* (setupDraginoLoRa), the receive poll (receivePkt, receiveDraginoPacket),*)
(* the status report (sendstat) and the main loop (draginoMain).           *)
(*                                                                         *)
(* Everything the driver does to the outside world is recorded as a log of *)
(* events: <<"pin", pin, level>> for digitalWrite, <<"delay", ms>> for     *)
(* delay, <<"spi", byte0, byte1>> for one wiringPiSPIDataRW transfer       *)
(* (byte1 is the value sent for a write and the value received for a read),*)
(* <<"read", pin, level>> for digitalRead(pin).                            *)
(***************************************************************************)
EXTENDS Integers, Sequences, FiniteSets, TLC

VARIABLES
    pc,                \* position of draginoMain
    sf,                \* global sf (spreading factor)
    freq,              \* global freq (Hz)
    transmission_mode, \* global transmission_mode
    is_sx1272,         \* global is_sx1272
    setupStatus,       \* draginoMain's local setupStatus ("unset" before the call)
    chip,              \* value last written to each register of the chip (-1: never written)
    setupLog,          \* events of the start-up sequence
    hwaddr,            \* ifr.ifr_hwaddr.sa_data[0..5]
    lasttime,          \* draginoMain's local lasttime (32-bit, as <<high, low>> 16-bit halves)
    cp_nb_rx_rcv,      \* counter "received"
    cp_nb_rx_ok,       \* counter "acceptedCRC"
    cp_up_pkt_fwd,     \* counter "forwarded"
    receivedbytes,     \* global receivedbytes
    lora_packet,       \* payload buffer, index 0..PacketSize-1
    lora_snr,          \* global lora_snr
    pollLog,           \* events of receiveDraginoPacket in the current loop tick
    pollRet,           \* value receiveDraginoPacket returned in the current loop tick
    uplinks,           \* uplink frames (buff_up) composed in the current loop tick
    status_report,     \* sendstat's static status_report
    statsEmitted,      \* number of sendstat calls in the current loop tick
    sent,              \* buffers handed to sendudp by the last call of
                       \* receiveDraginoPacket or of sendstat
    nowseconds,        \* the loop's local nowseconds (<<high, low>>; <<>> out of scope)
    tally              \* history: the polls made and the values reported so far

vars == <<pc, sf, freq, transmission_mode, is_sx1272, setupStatus, chip, setupLog,
          hwaddr, lasttime, cp_nb_rx_rcv, cp_nb_rx_ok, cp_up_pkt_fwd, receivedbytes,
          lora_packet, lora_snr, pollLog, pollRet, uplinks, status_report, statsEmitted,
          sent, nowseconds, tally>>

---------------------------------------------------------------------------
(* Bounds of the model *)

\* polls with the interrupt line asserted are made while cp_nb_rx_rcv < MaxCount
MaxCount == 2
\* where the history of the polls is kept, polls with the interrupt line
\* asserted are made while it counts fewer than MaxPolls of them
MaxPolls == 3

(* Values the environment supplies *)

\* contents of the version register
VersionValues == {34, 18, 0}
\* what a chip answers to the first and to the second read of the version
\* register: an SX1272, an SX1276 (held in reset by the first pulse), no chip
VersionReads == {<<34, 34>>, <<0, 18>>, <<0, 0>>}
\* transmission modes passed to setupDraginoLoRa
ModeValues == {1, 5}
\* centre frequencies, all inside the chips' range 137 MHz .. 1020 MHz
FreqValues == {137000000, 433175000, 860000000, 865200000, 868100000,
               915000061, 1019999999, 1020000000}
\* contents of REG_FIFO_RX_BASE_AD
RxBaseValues == {0}
\* contents of REG_IRQ_FLAGS at a poll: RxDone+ValidHeader, without and with PayloadCrcError
IrqValues == {80, 112}
\* contents of REG_FIFO_RX_CURRENT_ADDR
FifoAddrValues == {16}
\* contents of the FIFO window of a received frame
FifoValues == {<<65>>, <<66, 67>>}
\* size of the payload buffer lora_packet kept by the model
PacketSize == 2
\* contents of REG_PKT_SNR_VALUE
SnrValues == {8, 132}
\* contents of the RSSI registers 0x1A and 0x1B
RssiValues == {100}
\* the two bytes rand() gives for a token
TokenValues == {<<167, 52>>}
\* hardware addresses returned by ioctl(SIOCGIFHWADDR)
HwAddrValues == {<<18, 52, 86, 120, 154, 188>>, <<0, 1, 2, 253, 254, 255>>}
\* wall-clock seconds (32-bit, <<high, low>> 16-bit halves)
TimeValues == {<<0, 10>>, <<0, 40>>, <<65535, 65530>>}

---------------------------------------------------------------------------
(* Program constants *)

ssPin == 6
dio0 == 7
RST == 0

SF7 == 7
SF8 == 8
SF9 == 9
SF10 == 10
SF11 == 11
SF12 == 12
sf_t == {SF7, SF8, SF9, SF10, SF11, SF12}

REG_FIFO == 0
REG_FIFO_ADDR_PTR == 13
REG_FIFO_RX_BASE_AD == 15
REG_RX_NB_BYTES == 19
REG_OPMODE == 1
REG_FIFO_RX_CURRENT_ADDR == 16
REG_IRQ_FLAGS == 18
REG_MODEM_CONFIG == 29
REG_MODEM_CONFIG2 == 30
REG_MODEM_CONFIG3 == 38
REG_SYMB_TIMEOUT_LSB == 31
REG_PKT_SNR_VALUE == 25
REG_PAYLOAD_LENGTH == 34
REG_MAX_PAYLOAD_LENGTH == 35
REG_HOP_PERIOD == 36
REG_VERSION == 66
SX72_MODE_RX_CONTINUOS == 133
SX72_MODE_SLEEP == 128
PAYLOAD_LENGTH == 64
REG_LNA == 12
LNA_MAX_GAIN == 35
SX72_MC1_LOW_DATA_RATE_OPTIMIZE == 1
REG_FRF_MSB == 6
REG_FRF_MID == 7
REG_FRF_LSB == 8
PROTOCOL_VERSION == 1
PKT_PUSH_DATA == 0

\* Register addresses of hope_rfm96.h, which is not among the sources: the
\* RFM96 register map (RegPaRamp 0x0A, RegModemConfig1 0x1D, RegModemConfig2
\* 0x1E, RegPreambleMsb 0x20, RegPreambleLsb 0x21, RegModemConfig3 0x26).
REG_RegPaRamp == 10
REG_RegModemConfig1 == 29
REG_RegModemConfig2 == 30
REG_RegPreambleMsb == 32
REG_RegPreambleLsb == 33
REG_RegModemConfig3 == 38

RegAddrs == 0 .. 127

---------------------------------------------------------------------------
(* C integer operators on naturals *)

RECURSIVE BitAnd(_, _)
BitAnd(a, b) ==
    IF a = 0 \/ b = 0 THEN 0
    ELSE (IF a % 2 = 1 /\ b % 2 = 1 THEN 1 ELSE 0) + 2 * BitAnd(a \div 2, b \div 2)

RECURSIVE BitOr(_, _)
BitOr(a, b) ==
    IF a = 0 THEN b
    ELSE IF b = 0 THEN a
    ELSE (IF a % 2 = 1 \/ b % 2 = 1 THEN 1 ELSE 0) + 2 * BitOr(a \div 2, b \div 2)

\* (uint8_t)x
U8(x) == x % 256


---------------------------------------------------------------------------
(* The bus: digitalWrite, delay, readDraginoRegister, writeDraginoRegister *)

digitalWrite(pin, level) == <<"pin", pin, level>>

delay(ms) == <<"delay", ms>>

selectreceiver == digitalWrite(ssPin, "LOW")

unselectreceiver == digitalWrite(ssPin, "HIGH")

\* The events of readDraginoRegister(addr) when the chip answers rx (the value
\* the call returns).
readDraginoRegister(addr, rx) ==
    <<selectreceiver, <<"spi", BitAnd(addr, 127), rx>>, unselectreceiver>>

writeDraginoRegisterHoldsSelect(addr, value) ==
    <<selectreceiver, <<"spi", BitOr(addr, 128), U8(value)>> >>

\* The events of writeDraginoRegister(addr, value).
writeDraginoRegister(addr, value) ==
    <<selectreceiver, <<"spi", BitOr(addr, 128), U8(value)>>, unselectreceiver>>

IsSpi(e) == e[1] = "spi"
IsWrite(e) == IsSpi(e) /\ e[2] >= 128
IsRead(e) == IsSpi(e) /\ e[2] < 128
IsWriteTo(e, addr) == IsWrite(e) /\ e[2] = addr + 128
IsReadOf(e, addr) == IsRead(e) /\ e[2] = addr

\* The registers after the writes of a log; a write to REG_IRQ_FLAGS clears
\* flags and stores nothing.
ApplyWrites(regs, log) ==
    LET writes == {i \in 1 .. Len(log) : IsWrite(log[i]) /\ log[i][2] - 128 # REG_IRQ_FLAGS}
        last(a) == CHOOSE i \in writes :
                      /\ log[i][2] - 128 = a
                      /\ \A j \in writes : log[j][2] - 128 = a => j <= i
    IN  [a \in DOMAIN regs |->
            IF \E i \in writes : log[i][2] - 128 = a THEN log[last(a)][3] ELSE regs[a]]

---------------------------------------------------------------------------
(* setupDraginoLoRa *)

DetectEventsNoSettle(v1, v2) ==
    <<digitalWrite(RST, "HIGH"), delay(100), digitalWrite(RST, "LOW")>>
    \o readDraginoRegister(REG_VERSION, v1)
    \o (IF v1 = 34 THEN <<>>
        ELSE <<digitalWrite(RST, "LOW"), delay(100), digitalWrite(RST, "HIGH"), delay(100)>>
             \o readDraginoRegister(REG_VERSION, v2))

\* Lines 272-299: the reset pulse and the reads of the version register; v1
\* and v2 are what the chip answers to the first and to the second read.
DetectEvents(v1, v2) ==
    <<digitalWrite(RST, "HIGH"), delay(100), digitalWrite(RST, "LOW"), delay(100)>>
    \o readDraginoRegister(REG_VERSION, v1)
    \o (IF v1 = 34 THEN <<>>
        ELSE <<digitalWrite(RST, "LOW"), delay(100), digitalWrite(RST, "HIGH"), delay(100)>>
             \o readDraginoRegister(REG_VERSION, v2))

DetectVariantSwapped(v1, v2) ==
    IF v1 = 18 THEN "sx1276" ELSE IF v2 = 34 THEN "sx1272" ELSE "none"

\* Lines 279-299: which chip the version reads select.
DetectVariant(v1, v2) ==
    IF v1 = 34 THEN "sx1272" ELSE IF v2 = 18 THEN "sx1276" ELSE "none"

FrfShift18(fq) ==
    (fq \div 15625) * 128 + (((fq % 15625) * 128) \div 15625)

FrfRounded(fq) ==
    (fq \div 15625) * 256 + (((fq % 15625) * 512 + 15625) \div 31250)

\* Line 304: ((uint64_t)freq << 19) / 32000000, the integer quotient.  The
\* 64-bit product is avoided: 2^19 / 32000000 = 256 / 15625, and with
\* fq = 15625 * q + r the quotient of fq * 256 by 15625 is
\* 256 * q + (256 * r) \div 15625.
Frf(fq) ==
    (fq \div 15625) * 256 + (((fq % 15625) * 256) \div 15625)

\* Lines 305-307.
FrfEvents(fq) ==
    LET frf == Frf(fq) IN
    writeDraginoRegister(REG_FRF_MSB, U8(frf \div 65536))
    \o writeDraginoRegister(REG_FRF_MID, U8(frf \div 256))
    \o writeDraginoRegister(REG_FRF_LSB, U8(frf))

\* Lines 310-325.
ModemEvents(is72, sfv) ==
    IF is72
    THEN (IF sfv = SF11 \/ sfv = SF12
          THEN writeDraginoRegister(REG_MODEM_CONFIG, 11)
          ELSE writeDraginoRegister(REG_MODEM_CONFIG, 10))
         \o writeDraginoRegister(REG_MODEM_CONFIG2, BitOr(sfv * 16, 4))
    ELSE (IF sfv = SF11 \/ sfv = SF12
          THEN writeDraginoRegister(REG_MODEM_CONFIG3, 12)
          ELSE writeDraginoRegister(REG_MODEM_CONFIG3, 4))
         \o writeDraginoRegister(REG_MODEM_CONFIG, 114)
         \o writeDraginoRegister(REG_MODEM_CONFIG2, BitOr(sfv * 16, 4))

\* Lines 327-335; base is what the chip answers for REG_FIFO_RX_BASE_AD.
PayloadEvents(sfv, base) ==
    (IF sfv = SF10 \/ sfv = SF11 \/ sfv = SF12
     THEN writeDraginoRegister(REG_SYMB_TIMEOUT_LSB, 5)
     ELSE writeDraginoRegister(REG_SYMB_TIMEOUT_LSB, 8))
    \o writeDraginoRegister(REG_MAX_PAYLOAD_LENGTH, 128)
    \o writeDraginoRegister(REG_PAYLOAD_LENGTH, PAYLOAD_LENGTH)
    \o writeDraginoRegister(REG_HOP_PERIOD, 255)
    \o readDraginoRegister(REG_FIFO_RX_BASE_AD, base)
    \o writeDraginoRegister(REG_FIFO_ADDR_PTR, base)

\* Lines 353-383: the settings of the transmission mode.
ModeEvents(tmode) ==
    (IF tmode = 1
     THEN writeDraginoRegister(REG_RegModemConfig1, 112 + 2)
          \o writeDraginoRegister(REG_RegModemConfig2, 192)
     ELSE <<>>)
    \o writeDraginoRegister(REG_RegPreambleMsb, 8 \div 256)
    \o writeDraginoRegister(REG_RegPreambleLsb, BitAnd(8, 255))
    \o writeDraginoRegister(57, 18)
    \o writeDraginoRegister(REG_RegModemConfig3, IF tmode = 1 THEN BitOr(4, 8) ELSE 4)
    \o writeDraginoRegister(49, 67)
    \o writeDraginoRegister(REG_RegPaRamp, 9)

ListenEventsGainLast ==
    writeDraginoRegister(REG_OPMODE, SX72_MODE_RX_CONTINUOS)
    \o writeDraginoRegister(REG_LNA, LNA_MAX_GAIN)

\* Lines 386-387.
ListenEvents ==
    writeDraginoRegister(REG_LNA, LNA_MAX_GAIN)
    \o writeDraginoRegister(REG_OPMODE, SX72_MODE_RX_CONTINUOS)

ConfigEventsLateSleep(is72, sfv, fq, tmode, base) ==
    FrfEvents(fq)
    \o ModemEvents(is72, sfv)
    \o writeDraginoRegister(REG_OPMODE, SX72_MODE_SLEEP)
    \o PayloadEvents(sfv, base)
    \o ModeEvents(tmode)
    \o ListenEvents

\* Lines 301-387: the configuration, in the order of the code.
ConfigEvents(is72, sfv, fq, tmode, base) ==
    writeDraginoRegister(REG_OPMODE, SX72_MODE_SLEEP)
    \o FrfEvents(fq)
    \o ModemEvents(is72, sfv)
    \o PayloadEvents(sfv, base)
    \o ModeEvents(tmode)
    \o ListenEvents

\* setupDraginoLoRa(address, mode, channel, power): the events it issues, the
\* value it returns and the globals it leaves.  address, channel and power
\* are not used by the code.
setupDraginoLoRa(mode, v1, v2, base) ==
    LET variant == DetectVariant(v1, v2)
        is72 == IF variant = "sx1272" THEN TRUE
                ELSE IF variant = "sx1276" THEN FALSE
                ELSE is_sx1272
    IN  [ events |-> DetectEvents(v1, v2)
                     \o (IF variant = "none" THEN <<>>
                         ELSE ConfigEvents(is72, sf, freq, mode, base)),
          ret |-> IF variant = "none" THEN -1 ELSE 0,
          is_sx1272 |-> is72,
          transmission_mode |-> mode ]

---------------------------------------------------------------------------
(* receivePkt and receiveDraginoPacket *)

\* ~x on an int
BitNot(x) == -x - 1

\* x & 0xFF on a two's complement int
Low8(x) == x % 256

DecodeSnrUnsigned(raw) == BitAnd(raw, 255) \div 4

DecodeSnrShiftOne(raw) ==
    IF BitAnd(raw, 128) # 0
    THEN -(U8(Low8(BitNot(raw) + 1) \div 2))
    ELSE BitAnd(raw, 255) \div 2

\* Lines 468-479: lora_snr for the byte read from REG_PKT_SNR_VALUE.
DecodeSnr(raw) ==
    IF BitAnd(raw, 128) # 0
    THEN -(U8(Low8(BitNot(raw) + 1) \div 4))
    ELSE BitAnd(raw, 255) \div 4

\* Lines 251-254: the reads of the FIFO, bytes[i] being the i-th answer.
RECURSIVE FifoEvents(_)
FifoEvents(bytes) ==
    IF bytes = <<>> THEN <<>>
    ELSE readDraginoRegister(REG_FIFO, Head(bytes)) \o FifoEvents(Tail(bytes))

CrcErrorNever(irqflags) == FALSE

\* Line 236: the payload CRC error flag of the IRQ flags.
CrcError(irqflags) == BitAnd(irqflags, 32) = 32

receivePktReadsFlagsFirst(irqflags, addr, bytes) ==
    LET head == readDraginoRegister(REG_IRQ_FLAGS, irqflags)
                \o writeDraginoRegister(REG_IRQ_FLAGS, 64)
    IN  IF CrcError(irqflags)
        THEN [ events |-> head \o writeDraginoRegister(REG_IRQ_FLAGS, 32),
               ret |-> FALSE,
               rcv |-> cp_nb_rx_rcv + 1,
               ok |-> cp_nb_rx_ok,
               receivedbytes |-> receivedbytes,
               payload |-> lora_packet ]
        ELSE [ events |-> head
                          \o readDraginoRegister(REG_FIFO_RX_CURRENT_ADDR, addr)
                          \o readDraginoRegister(REG_RX_NB_BYTES, Len(bytes))
                          \o writeDraginoRegister(REG_FIFO_ADDR_PTR, addr)
                          \o FifoEvents(bytes),
               ret |-> TRUE,
               rcv |-> cp_nb_rx_rcv + 1,
               ok |-> cp_nb_rx_ok + 1,
               receivedbytes |-> Len(bytes),
               payload |-> [i \in DOMAIN lora_packet |->
                              IF i < Len(bytes) THEN bytes[i + 1] ELSE lora_packet[i]] ]

receivePktCountsErrorsOnly(irqflags, addr, bytes) ==
    LET head == writeDraginoRegister(REG_IRQ_FLAGS, 64)
                \o readDraginoRegister(REG_IRQ_FLAGS, irqflags)
    IN  IF CrcError(irqflags)
        THEN [ events |-> head \o writeDraginoRegister(REG_IRQ_FLAGS, 32),
               ret |-> FALSE,
               rcv |-> cp_nb_rx_rcv + 1,
               ok |-> cp_nb_rx_ok,
               receivedbytes |-> receivedbytes,
               payload |-> lora_packet ]
        ELSE [ events |-> head
                          \o readDraginoRegister(REG_FIFO_RX_CURRENT_ADDR, addr)
                          \o readDraginoRegister(REG_RX_NB_BYTES, Len(bytes))
                          \o writeDraginoRegister(REG_FIFO_ADDR_PTR, addr)
                          \o FifoEvents(bytes),
               ret |-> TRUE,
               rcv |-> cp_nb_rx_rcv,
               ok |-> cp_nb_rx_ok + 1,
               receivedbytes |-> Len(bytes),
               payload |-> [i \in DOMAIN lora_packet |->
                              IF i < Len(bytes) THEN bytes[i + 1] ELSE lora_packet[i]] ]

\* receivePkt(payload): irqflags, addr and bytes are what the chip answers
\* for REG_IRQ_FLAGS, REG_FIFO_RX_CURRENT_ADDR and the FIFO; Len(bytes) is
\* what it answers for REG_RX_NB_BYTES.
receivePkt(irqflags, addr, bytes) ==
    LET head == writeDraginoRegister(REG_IRQ_FLAGS, 64)
                \o readDraginoRegister(REG_IRQ_FLAGS, irqflags)
    IN  IF CrcError(irqflags)
        THEN [ events |-> head \o writeDraginoRegister(REG_IRQ_FLAGS, 32),
               ret |-> FALSE,
               rcv |-> cp_nb_rx_rcv + 1,
               ok |-> cp_nb_rx_ok,
               receivedbytes |-> receivedbytes,
               payload |-> lora_packet ]
        ELSE [ events |-> head
                          \o readDraginoRegister(REG_FIFO_RX_CURRENT_ADDR, addr)
                          \o readDraginoRegister(REG_RX_NB_BYTES, Len(bytes))
                          \o writeDraginoRegister(REG_FIFO_ADDR_PTR, addr)
                          \o FifoEvents(bytes),
               ret |-> TRUE,
               rcv |-> cp_nb_rx_rcv + 1,
               ok |-> cp_nb_rx_ok + 1,
               receivedbytes |-> Len(bytes),
               payload |-> [i \in DOMAIN lora_packet |->
                              IF i < Len(bytes) THEN bytes[i + 1] ELSE lora_packet[i]] ]

UplinkHeaderShifted(tok, hw) ==
    <<PROTOCOL_VERSION, tok[1], tok[2], PKT_PUSH_DATA,
      U8(hw[1]), U8(hw[2]), U8(hw[3]), U8(hw[4]), U8(hw[5]), U8(hw[6]), 255, 255>>

\* Lines 505-528: the 12 bytes buff_up[0..11].
UplinkHeader(tok, hw) ==
    <<PROTOCOL_VERSION, tok[1], tok[2], PKT_PUSH_DATA,
      U8(hw[1]), U8(hw[2]), U8(hw[3]), 255, 255, U8(hw[4]), U8(hw[5]), U8(hw[6])>>

\* Lines 549-579: the datr field.
Datr(sfv) ==
    CASE sfv = SF7 -> "SF7BW125"
      [] sfv = SF8 -> "SF8BW125"
      [] sfv = SF9 -> "SF9BW125"
      [] sfv = SF10 -> "SF10BW125"
      [] sfv = SF11 -> "SF11BW125"
      [] sfv = SF12 -> "SF12BW125"
      [] OTHER -> "SF?BW125"

\* Lines 481-485.
rssicorr(is72) == IF is72 THEN 139 ELSE 157

\* Lines 497-606: buff_up, as its 12 header bytes and the values of the
\* fields of its JSON text (tmst, a clock reading, is left out; the data
\* field is empty since the payload encoder is commented out).
UplinkFrame(tok, hw, snr, rssi, size) ==
    [ bytes |-> UplinkHeader(tok, hw),
      json |-> [ chan |-> 0, rfch |-> 0, freq |-> freq, stat |-> 1, modu |-> "LORA",
                 datr |-> Datr(sf), codr |-> "4/5", lsnr |-> snr,
                 rssi |-> rssi - rssicorr(is_sx1272), size |-> size, data |-> "" ] ]

---------------------------------------------------------------------------
(* sendstat *)

\* Lines 421-438: the 12 bytes status_report[0..11].
StatHeader(tok, hw) ==
    <<PROTOCOL_VERSION, tok[1], tok[2], PKT_PUSH_DATA,
      U8(hw[1]), U8(hw[2]), U8(hw[3]), 255, 255, U8(hw[4]), U8(hw[5]), U8(hw[6])>>

StatFrameReportsAccepted(tok, hw) ==
    [ bytes |-> StatHeader(tok, hw),
      json |-> [ lati |-> 0, long |-> 0, alti |-> 0,
                 rxnb |-> cp_nb_rx_ok, rxok |-> cp_nb_rx_ok, rxfw |-> cp_up_pkt_fwd,
                 ackr |-> 0, dwnb |-> 0, txnb |-> 0,
                 pfrm |-> "Single Channel Gateway", mail |-> "", desc |-> "" ] ]

\* Lines 412-446: status_report, as its 12 header bytes and the values of the
\* fields of its JSON text (time, a clock reading, is left out).
StatFrame(tok, hw) ==
    [ bytes |-> StatHeader(tok, hw),
      json |-> [ lati |-> 0, long |-> 0, alti |-> 0,
                 rxnb |-> cp_nb_rx_rcv, rxok |-> cp_nb_rx_ok, rxfw |-> cp_up_pkt_fwd,
                 ackr |-> 0, dwnb |-> 0, txnb |-> 0,
                 pfrm |-> "Single Channel Gateway", mail |-> "", desc |-> "" ] ]

NoFrame == [bytes |-> <<>>, json |-> <<>>]

\* Line 451: what sendstat hands to sendudp; the call is commented out.
sendstatSent == <<>>

---------------------------------------------------------------------------
(* 32-bit unsigned seconds, as <<high, low>> halves of 16 bits *)

Half == 2 ^ 16

\* a - b on uint32_t
Sub32(a, b) ==
    LET lo == a[2] - b[2]
        borrow == IF lo < 0 THEN 1 ELSE 0
    IN  <<(a[1] - b[1] - borrow) % Half, lo % Half>>

\* the wall clock when draginoMain starts
BootTime == <<0, 10>>

\* Line 661: nowseconds - lasttime >= 30
IntervalElapsed(now, last) ==
    LET d == Sub32(now, last) IN d[1] > 0 \/ d[2] >= 30

---------------------------------------------------------------------------
(* receiveDraginoPacket *)

receiveDraginoPacketCountsIdle(level, irqflags, addr, bytes, raw, r1, r2, r3, tok) ==
    LET idle == [ events |-> << <<"read", dio0, level>> >>,
                  ret |-> 1,
                  rcv |-> cp_nb_rx_rcv + 1, ok |-> cp_nb_rx_ok,
                  receivedbytes |-> receivedbytes, payload |-> lora_packet,
                  snr |-> lora_snr, frames |-> <<>>, sent |-> <<>> ]
        pkt == receivePkt(irqflags, addr, bytes)
    IN  IF level # 1 THEN idle
        ELSE IF ~pkt.ret
        THEN [idle EXCEPT !.events = @ \o pkt.events, !.rcv = pkt.rcv, !.ok = pkt.ok]
        ELSE [ events |-> idle.events \o pkt.events
                          \o readDraginoRegister(REG_PKT_SNR_VALUE, raw)
                          \o readDraginoRegister(26, r1)
                          \o readDraginoRegister(27, r2)
                          \o readDraginoRegister(26, r3),
               ret |-> 0,
               rcv |-> pkt.rcv, ok |-> pkt.ok,
               receivedbytes |-> pkt.receivedbytes, payload |-> pkt.payload,
               snr |-> DecodeSnr(raw),
               frames |-> <<UplinkFrame(tok, hwaddr, DecodeSnr(raw), r3, pkt.receivedbytes)>>,
               sent |-> <<>> ]

\* receiveDraginoPacket(): level is what digitalRead(dio0) gives, raw, r1, r2
\* and r3 what the chip answers for REG_PKT_SNR_VALUE, 0x1A, 0x1B and 0x1A
\* again, tok the two bytes of rand().  The frame composed in buff_up is
\* handed to nobody: the call of sendudp at line 611 is commented out.
receiveDraginoPacket(level, irqflags, addr, bytes, raw, r1, r2, r3, tok) ==
    LET idle == [ events |-> << <<"read", dio0, level>> >>,
                  ret |-> 1,
                  rcv |-> cp_nb_rx_rcv, ok |-> cp_nb_rx_ok,
                  receivedbytes |-> receivedbytes, payload |-> lora_packet,
                  snr |-> lora_snr, frames |-> <<>>, sent |-> <<>> ]
        pkt == receivePkt(irqflags, addr, bytes)
    IN  IF level # 1 THEN idle
        ELSE IF ~pkt.ret
        THEN [idle EXCEPT !.events = @ \o pkt.events, !.rcv = pkt.rcv, !.ok = pkt.ok]
        ELSE [ events |-> idle.events \o pkt.events
                          \o readDraginoRegister(REG_PKT_SNR_VALUE, raw)
                          \o readDraginoRegister(26, r1)
                          \o readDraginoRegister(27, r2)
                          \o readDraginoRegister(26, r3),
               ret |-> 0,
               rcv |-> pkt.rcv, ok |-> pkt.ok,
               receivedbytes |-> pkt.receivedbytes, payload |-> pkt.payload,
               snr |-> DecodeSnr(raw),
               frames |-> <<UplinkFrame(tok, hwaddr, DecodeSnr(raw), r3, pkt.receivedbytes)>>,
               sent |-> <<>> ]

---------------------------------------------------------------------------
(* draginoMain *)

\* The history of the loop, for the accounting of the status reports: the
\* number of polls that found the interrupt line asserted, the number of
\* frames accepted, and the sums of the rxnb and rxok values of the status
\* frames emitted.  A specification that does not need it starts with
\* NoTally and keeps none.
NoTally == [kept |-> FALSE, polls |-> 0, accepted |-> 0, rxnb |-> 0, rxok |-> 0]
ZeroTally == [NoTally EXCEPT !.kept = TRUE]

\* the history after a poll that issued events and composed frames
TallyPoll(t, events, frames) ==
    IF ~t.kept THEN t
    ELSE [t EXCEPT !.polls = @ + Len(SelectSeq(events,
                                   LAMBDA e : e[1] = "read" /\ e[2] = dio0 /\ e[3] = 1)),
                   !.accepted = @ + Len(frames)]

\* the history after the emission of a status frame
TallyStat(t, frame) ==
    IF ~t.kept THEN t
    ELSE [t EXCEPT !.rxnb = @ + frame.json.rxnb, !.rxok = @ + frame.json.rxok]

\* The globals as the file initialises them (lines 42-96); lasttime is an
\* uninitialised local.
Init ==
    /\ pc = "setup"
    /\ transmission_mode = 1
    /\ sf = SF12
    /\ freq = 865200000
    /\ is_sx1272 = TRUE
    /\ setupStatus = <<>>
    /\ chip = [a \in RegAddrs |-> -1]
    /\ setupLog = <<>>
    /\ hwaddr = <<0, 0, 0, 0, 0, 0>>
    /\ lasttime \in TimeValues
    /\ cp_nb_rx_rcv = 0
    /\ cp_nb_rx_ok = 0
    /\ cp_up_pkt_fwd = 0
    /\ receivedbytes = 0
    /\ lora_packet = [i \in 0 .. PacketSize - 1 |-> 0]
    /\ lora_snr = 0
    /\ pollLog = <<>>
    /\ pollRet = <<>>
    /\ uplinks = <<>>
    /\ status_report = NoFrame
    /\ statsEmitted = 0
    /\ sent = <<>>
    /\ nowseconds = <<>>
    /\ tally = NoTally

\* setupLoRa of lora_interface, which is not among the sources: the call is
\* taken to run setupDraginoLoRa and to return what it returns.
setupLoRa(mode, v1, v2, base) == setupDraginoLoRa(mode, v1, v2, base)

\* The state after a call of the set-up that gave r.
SetupResult(r) ==
    /\ pc = "setup"
    /\ setupLog' = r.events
    /\ chip' = ApplyWrites(chip, r.events)
    /\ is_sx1272' = r.is_sx1272
    /\ transmission_mode' = r.transmission_mode
    /\ setupStatus' = <<r.ret>>
    /\ pc' = "main"
    /\ UNCHANGED <<sf, freq, hwaddr, lasttime, cp_nb_rx_rcv, cp_nb_rx_ok, cp_up_pkt_fwd,
                   receivedbytes, lora_packet, lora_snr, pollLog, pollRet, uplinks,
                   status_report, statsEmitted, sent, nowseconds, tally>>

\* Lines 625-629: setupLoRa(address, mode, channel, power) with mode = 1; the
\* result is stored in setupStatus and not looked at again.
Setup ==
    \E v \in VersionReads, base \in RxBaseValues :
       \E r \in {setupLoRa(1, v[1], v[2], base)} : SetupResult(r)

\* Lines 631-653: the socket and the hardware address; the loop follows
\* whatever setupStatus is.
MainInit ==
    /\ pc = "main"
    /\ hwaddr' \in HwAddrValues
    /\ pc' = "poll"
    /\ UNCHANGED <<sf, freq, transmission_mode, is_sx1272, setupStatus, chip, setupLog,
                   lasttime, cp_nb_rx_rcv, cp_nb_rx_ok, cp_up_pkt_fwd, receivedbytes,
                   lora_packet, lora_snr, pollLog, pollRet, uplinks, status_report,
                   statsEmitted, sent, nowseconds, tally>>

\* Line 657: receiveDraginoPacket() with the given answers of the environment.
PollWith(level, irqflags, addr, bytes, raw, r1, r2, r3, tok) ==
    \E r \in {receiveDraginoPacket(level, irqflags, addr, bytes, raw, r1, r2, r3, tok)} :
    /\ pc = "poll"
    /\ pollLog' = r.events
    /\ chip' = ApplyWrites(chip, r.events)
    /\ pollRet' = <<r.ret>>
    /\ cp_nb_rx_rcv' = r.rcv
    /\ cp_nb_rx_ok' = r.ok
    /\ receivedbytes' = r.receivedbytes
    /\ lora_packet' = r.payload
    /\ lora_snr' = r.snr
    /\ uplinks' = r.frames
    /\ sent' = r.sent
    /\ statsEmitted' = 0
    /\ nowseconds' = <<>>
    /\ tally' = TallyPoll(tally, r.events, r.frames)
    /\ pc' = "timer"
    /\ UNCHANGED <<sf, freq, transmission_mode, is_sx1272, setupStatus, setupLog, hwaddr,
                   lasttime, cp_up_pkt_fwd, status_report>>

\* The poll that finds the interrupt line low: nothing else is read.
PollIdle == PollWith(0, 0, 0, <<>>, 0, 0, 0, 0, <<0, 0>>)

\* The poll that finds the interrupt line high and the CRC error flag set:
\* the IRQ flags are the only register read.
PollCrcError ==
    /\ cp_nb_rx_rcv < MaxCount
    /\ tally.polls < MaxPolls
    /\ \E irqflags \in IrqValues :
          /\ CrcError(irqflags)
          /\ PollWith(1, irqflags, 0, <<>>, 0, 0, 0, 0, <<0, 0>>)

\* The poll that finds the interrupt line high and no CRC error.
PollFrame ==
    /\ cp_nb_rx_rcv < MaxCount
    /\ tally.polls < MaxPolls
    /\ \E irqflags \in IrqValues, addr \in FifoAddrValues,
          bytes \in FifoValues, raw \in SnrValues,
          r1 \in RssiValues, r2 \in RssiValues, r3 \in RssiValues, tok \in TokenValues :
          /\ ~CrcError(irqflags)
          /\ PollWith(1, irqflags, addr, bytes, raw, r1, r2, r3, tok)

TimerKeepsAccepted ==
    /\ pc = "timer"
    /\ \E now \in TimeValues :
          /\ nowseconds' = now
          /\ IF IntervalElapsed(now, lasttime)
             THEN /\ lasttime' = now
                  /\ \E tok \in TokenValues : status_report' = StatFrame(tok, hwaddr)
                  /\ statsEmitted' = 1
                  /\ tally' = TallyStat(tally, status_report')
                  /\ sent' = sendstatSent
                  /\ cp_nb_rx_rcv' = 0
                  /\ cp_up_pkt_fwd' = 0
                  /\ UNCHANGED cp_nb_rx_ok
             ELSE /\ statsEmitted' = 0
                  /\ sent' = <<>>
                  /\ UNCHANGED <<lasttime, status_report, cp_nb_rx_rcv, cp_nb_rx_ok,
                                 cp_up_pkt_fwd, tally>>
    /\ pollLog' = <<>>
    /\ pollRet' = <<>>
    /\ uplinks' = <<>>
    /\ pc' = "poll"
    /\ UNCHANGED <<sf, freq, transmission_mode, is_sx1272, setupStatus, chip, setupLog,
                   hwaddr, receivedbytes, lora_packet, lora_snr>>

TimerStopsOnCrcError ==
    /\ pc = "timer"
    /\ \A i \in 1 .. Len(pollLog) : ~(pollLog[i][1] = "spi" /\ pollLog[i][2] = 128 + REG_IRQ_FLAGS
                                         /\ pollLog[i][3] = 32)
    /\ \E now \in TimeValues :
          /\ nowseconds' = now
          /\ IF IntervalElapsed(now, lasttime)
             THEN /\ lasttime' = now
                  /\ \E tok \in TokenValues : status_report' = StatFrame(tok, hwaddr)
                  /\ statsEmitted' = 1
                  /\ tally' = TallyStat(tally, status_report')
                  /\ sent' = sendstatSent
                  /\ cp_nb_rx_rcv' = 0
                  /\ cp_nb_rx_ok' = 0
                  /\ cp_up_pkt_fwd' = 0
             ELSE /\ statsEmitted' = 0
                  /\ sent' = <<>>
                  /\ UNCHANGED <<lasttime, status_report, cp_nb_rx_rcv, cp_nb_rx_ok,
                                 cp_up_pkt_fwd, tally>>
    /\ pollLog' = <<>>
    /\ pollRet' = <<>>
    /\ uplinks' = <<>>
    /\ pc' = "poll"
    /\ UNCHANGED <<sf, freq, transmission_mode, is_sx1272, setupStatus, chip, setupLog,
                   hwaddr, receivedbytes, lora_packet, lora_snr>>

\* Lines 659-668: the interval check, sendstat and the reset of the counters;
\* the tick ends, and with it the life of buff_up and of the poll's result.
Timer ==
    /\ pc = "timer"
    /\ \E now \in TimeValues :
          /\ nowseconds' = now
          /\ IF IntervalElapsed(now, lasttime)
             THEN /\ lasttime' = now
                  /\ \E tok \in TokenValues : status_report' = StatFrame(tok, hwaddr)
                  /\ statsEmitted' = 1
                  /\ tally' = TallyStat(tally, status_report')
                  /\ sent' = sendstatSent
                  /\ cp_nb_rx_rcv' = 0
                  /\ cp_nb_rx_ok' = 0
                  /\ cp_up_pkt_fwd' = 0
             ELSE /\ statsEmitted' = 0
                  /\ sent' = <<>>
                  /\ UNCHANGED <<lasttime, status_report, cp_nb_rx_rcv, cp_nb_rx_ok,
                                 cp_up_pkt_fwd, tally>>
    /\ pollLog' = <<>>
    /\ pollRet' = <<>>
    /\ uplinks' = <<>>
    /\ pc' = "poll"
    /\ UNCHANGED <<sf, freq, transmission_mode, is_sx1272, setupStatus, chip, setupLog,
                   hwaddr, receivedbytes, lora_packet, lora_snr>>

Next == Setup \/ MainInit \/ PollIdle \/ PollCrcError \/ PollFrame \/ Timer

Spec == Init /\ [][Next]_vars

---------------------------------------------------------------------------
(* The set-up over the configurations of the build (sf, freq) and the modes *)

InitSetup ==
    /\ pc = "setup"
    /\ transmission_mode = 1
    /\ sf \in sf_t
    /\ freq \in FreqValues
    /\ is_sx1272 = TRUE
    /\ setupStatus = <<>>
    /\ chip = [a \in RegAddrs |-> -1]
    /\ setupLog = <<>>
    /\ hwaddr = <<0, 0, 0, 0, 0, 0>>
    /\ lasttime = <<0, 0>>
    /\ cp_nb_rx_rcv = 0
    /\ cp_nb_rx_ok = 0
    /\ cp_up_pkt_fwd = 0
    /\ receivedbytes = 0
    /\ lora_packet = [i \in 0 .. PacketSize - 1 |-> 0]
    /\ lora_snr = 0
    /\ pollLog = <<>>
    /\ pollRet = <<>>
    /\ uplinks = <<>>
    /\ status_report = NoFrame
    /\ statsEmitted = 0
    /\ sent = <<>>
    /\ nowseconds = <<>>
    /\ tally = NoTally

\* setupDraginoLoRa with any mode and any two answers of the version register.
SetupAny ==
    \E mode \in ModeValues, v1 \in VersionValues, v2 \in VersionValues,
       base \in RxBaseValues :
       \E r \in {setupDraginoLoRa(mode, v1, v2, base)} : SetupResult(r)

NextSetup == SetupAny

SpecSetup == InitSetup /\ [][NextSetup]_vars

\* setupDraginoLoRa is straight-line code with no loop and no blocking call
\* but delay: a call that has started returns.
SpecSetupFair == SpecSetup /\ WF_vars(NextSetup)

---------------------------------------------------------------------------
(* The SNR decoding over every byte of REG_PKT_SNR_VALUE *)

\* Lines 468-479 on their own: the read of the register and the decoding.
SnrStep ==
    /\ pc = "setup"
    /\ pollLog = <<>>
    /\ \E raw \in 0 .. 255 :
          /\ pollLog' = readDraginoRegister(REG_PKT_SNR_VALUE, raw)
          /\ lora_snr' = DecodeSnr(raw)
    /\ UNCHANGED <<pc, sf, freq, transmission_mode, is_sx1272, setupStatus, chip, setupLog,
                   hwaddr, lasttime, cp_nb_rx_rcv, cp_nb_rx_ok, cp_up_pkt_fwd,
                   receivedbytes, lora_packet, pollRet, uplinks, status_report,
                   statsEmitted, sent, nowseconds, tally>>

NextSnr == SnrStep

SpecSnr == Init /\ [][NextSnr]_vars

---------------------------------------------------------------------------
(* The program with the history of its polls and status reports *)

InitCount ==
    /\ pc = "setup"
    /\ transmission_mode = 1
    /\ sf = SF12
    /\ freq = 865200000
    /\ is_sx1272 = TRUE
    /\ setupStatus = <<>>
    /\ chip = [a \in RegAddrs |-> -1]
    /\ setupLog = <<>>
    /\ hwaddr = <<0, 0, 0, 0, 0, 0>>
    /\ lasttime \in TimeValues
    /\ cp_nb_rx_rcv = 0
    /\ cp_nb_rx_ok = 0
    /\ cp_up_pkt_fwd = 0
    /\ receivedbytes = 0
    /\ lora_packet = [i \in 0 .. PacketSize - 1 |-> 0]
    /\ lora_snr = 0
    /\ pollLog = <<>>
    /\ pollRet = <<>>
    /\ uplinks = <<>>
    /\ status_report = NoFrame
    /\ statsEmitted = 0
    /\ sent = <<>>
    /\ nowseconds = <<>>
    /\ tally = ZeroTally

SpecCount == InitCount /\ [][Next]_vars

---------------------------------------------------------------------------
(* Reading the logs *)

IsVersionRead(e) == IsReadOf(e, REG_VERSION)
IsIrqRead(e) == IsReadOf(e, REG_IRQ_FLAGS)
IsSnrRead(e) == IsReadOf(e, REG_PKT_SNR_VALUE)
IsLineRead(e) == e[1] = "read"
IsPin(e, pin, level) == e[1] = "pin" /\ e[2] = pin /\ e[3] = level

\* the positions of the writes to a register of a set
WritesTo(log, addrs) == {i \in 1 .. Len(log) : \E a \in addrs : IsWriteTo(log[i], a)}
\* the positions of the reads of a register
ReadsAt(log, addr) == {i \in 1 .. Len(log) : IsReadOf(log[i], addr)}

SetupDone == pc = "main"
Detected == setupStatus = <<0>>
DetectionFailed == setupStatus = <<-1>>
InLoop == pc \in {"poll", "timer"}

---------------------------------------------------------------------------
(* The claims *)

\* C1: if chip detection fails (setupDraginoLoRa returns -1), start-up is
\* aborted: the polling loop is not entered, and there is no poll and no
\* status emission in that run.
C1_FailedDetectionAborts ==
    DetectionFailed =>
        /\ ~InLoop
        /\ pollLog = <<>>
        /\ status_report = NoFrame
        /\ statsEmitted = 0

\* C2: the version register is read once or twice; VariantA (SX1272) is
\* selected exactly when the first read gives 0x22; otherwise the reset line
\* is pulsed again (low, then high) before a second read, and VariantB
\* (SX1276) is selected exactly when the second read gives 0x12; in every
\* other case the set-up returns -1 and has written no register.
C2_VariantDetection ==
    SetupDone =>
        LET reads == SelectSeq(setupLog, IsVersionRead)
            at == ReadsAt(setupLog, REG_VERSION)
            selectedA == Detected /\ is_sx1272
            selectedB == Detected /\ ~is_sx1272
        IN  /\ Len(reads) \in {1, 2}
            /\ selectedA <=> reads[1][3] = 34
            /\ reads[1][3] = 34 => Len(reads) = 1
            /\ reads[1][3] # 34 =>
                  /\ Len(reads) = 2
                  /\ selectedB <=> reads[2][3] = 18
                  /\ \E i \in at, j \in at, lo \in 1 .. Len(setupLog), hi \in 1 .. Len(setupLog) :
                        /\ i < lo /\ lo < hi /\ hi < j
                        /\ IsPin(setupLog[lo], RST, "LOW")
                        /\ IsPin(setupLog[hi], RST, "HIGH")
            /\ (~selectedA /\ ~selectedB) =>
                  /\ DetectionFailed
                  /\ \A i \in 1 .. Len(setupLog) : ~IsWrite(setupLog[i])
                  /\ \A a \in RegAddrs : chip[a] = -1

\* C2's case: the first read does not give 0x22, the second gives 0x12 and
\* the SX1276 is selected.
C2_Witness ==
    /\ SetupDone /\ Detected /\ ~is_sx1272
    /\ Len(SelectSeq(setupLog, IsVersionRead)) = 2
    /\ SelectSeq(setupLog, IsVersionRead)[2][3] = 18

\* C3: in a set-up that detects the chip, the operating-mode register is
\* written exactly twice, sleep mode first and continuous receive last, and
\* every write to the frequency registers and to the modem configuration
\* registers lies between the two.
C3_SleepBeforeConfiguration ==
    (SetupDone /\ Detected) =>
        LET op == WritesTo(setupLog, {REG_OPMODE})
            cfg == WritesTo(setupLog, {REG_FRF_MSB, REG_FRF_MID, REG_FRF_LSB,
                                       REG_MODEM_CONFIG, REG_MODEM_CONFIG2, REG_MODEM_CONFIG3})
        IN  /\ Cardinality(op) = 2
            /\ \E first \in op, last \in op :
                  /\ first < last
                  /\ setupLog[first][3] = SX72_MODE_SLEEP
                  /\ setupLog[last][3] = SX72_MODE_RX_CONTINUOS
                  /\ \A i \in cfg : first < i /\ i < last
            /\ \A a \in {REG_FRF_MSB, REG_FRF_MID, REG_FRF_LSB, REG_MODEM_CONFIG,
                         REG_MODEM_CONFIG2} : WritesTo(setupLog, {a}) # {}

\* C3's case: a set-up that detected the chip and wrote the frequency and
\* the modem configuration.
C3_Witness ==
    /\ SetupDone /\ Detected
    /\ WritesTo(setupLog, {REG_FRF_MSB}) # {}
    /\ WritesTo(setupLog, {REG_MODEM_CONFIG3}) # {}

\* C4: in every poll that finds the interrupt line asserted, if the CRC error
\* flag of the IRQ flags read is set, cp_nb_rx_ok keeps its value and no
\* uplink frame is composed; if it is clear, cp_nb_rx_ok grows by exactly
\* one and exactly one uplink frame is composed.
C4_CrcGatesAcceptance ==
    [][ (pc = "poll" /\ pc' = "timer" /\ SelectSeq(pollLog', IsLineRead)[1][3] = 1) =>
            LET irqflags == SelectSeq(pollLog', IsIrqRead)[1][3]
            IN  IF (irqflags \div 32) % 2 = 1
                THEN cp_nb_rx_ok' = cp_nb_rx_ok /\ uplinks' = <<>>
                ELSE cp_nb_rx_ok' = cp_nb_rx_ok + 1 /\ Len(uplinks') = 1 ]_vars

\* C4's case: a poll found the line asserted and no CRC error, counted the
\* frame and composed one uplink frame.
C4_Witness ==
    /\ pc = "timer"
    /\ SelectSeq(pollLog, IsLineRead)[1][3] = 1
    /\ (SelectSeq(pollLog, IsIrqRead)[1][3] \div 32) % 2 = 0
    /\ cp_nb_rx_ok = 2
    /\ Len(uplinks) = 1

\* the frames composed so far that the state still holds
Frames ==
    {uplinks[i] : i \in DOMAIN uplinks}
    \cup (IF status_report.bytes = <<>> THEN {} ELSE {status_report})

\* C5: every uplink frame and every status frame starts with 12 header
\* bytes of which byte 0 is the protocol version, byte 3 is PUSH_DATA (0)
\* and bytes 4-11 are h[0], h[1], h[2], 0xFF, 0xFF, h[3], h[4], h[5] for the
\* hardware address h; for 12 34 56 78 9A BC they are 12 34 56 FF FF 78 9A BC.
C5_FrameHeader ==
    \A f \in Frames :
        /\ Len(f.bytes) = 12
        /\ f.bytes[1] = PROTOCOL_VERSION
        /\ f.bytes[4] = 0
        /\ SubSeq(f.bytes, 5, 12) =
              <<hwaddr[1], hwaddr[2], hwaddr[3], 255, 255, hwaddr[4], hwaddr[5], hwaddr[6]>>
        /\ hwaddr = <<18, 52, 86, 120, 154, 188>> =>
              SubSeq(f.bytes, 5, 12) = <<18, 52, 86, 255, 255, 120, 154, 188>>

\* C5's case: with the address 12 34 56 78 9A BC an uplink frame and a status
\* frame have been composed.
C5_Witness ==
    /\ hwaddr = <<18, 52, 86, 120, 154, 188>>
    /\ uplinks # <<>>
    /\ status_report.bytes # <<>>

\* the three frequency registers as the set-up left them
FrfTriple == <<chip[REG_FRF_MSB], chip[REG_FRF_MID], chip[REG_FRF_LSB]>>

\* the bytes of a 24-bit value, high to low
Split24(x) == <<(x \div 65536) % 256, (x \div 256) % 256, x % 256>>

\* C6 as claimed: for 865200000 Hz the frequency registers hold the bytes of
\* round(865200000 * 2^19 / 32000000), which is 14175437 (the quotient is
\* 14175436.8).
C6_RoundedTriple ==
    (SetupDone /\ Detected /\ freq = 865200000) =>
        LET q == 865200000 \div 15625
            r == 865200000 % 15625
            rounded == q * 256 + ((r * 512 + 15625) \div 31250)
        IN  FrfTriple = Split24(rounded)

\* C6 as amended: for 865200000 Hz the frequency registers hold D8 4C CC, the
\* bytes of 14175436, the quotient of 865200000 * 2^19 by 32000000 truncated.
C6_TruncatedTriple ==
    (SetupDone /\ Detected /\ freq = 865200000) =>
        /\ FrfTriple = <<216, 76, 204>>
        /\ FrfTriple = Split24(14175436)

\* C6's case: a set-up for 865200000 Hz that detected the chip and wrote the
\* frequency registers.
C6_Witness ==
    /\ SetupDone /\ Detected /\ freq = 865200000
    /\ WritesTo(setupLog, {REG_FRF_LSB}) # {}

\* C7: for a frequency of the chips' range (137 MHz .. 1020 MHz) the value
\* computed fits in 24 bits, so that the three registers hold all of it, and
\* the frequency rebuilt from the registers, value * 32000000 / 2^19, differs
\* from the frequency by less than one step 32000000 / 2^19 = 15625 / 256 Hz:
\* |256 * freq - 15625 * value| < 15625.
C7_FrequencyRoundTrip ==
    (SetupDone /\ Detected /\ freq >= 137000000 /\ freq <= 1020000000) =>
        LET value == chip[REG_FRF_MSB] * 65536 + chip[REG_FRF_MID] * 256 + chip[REG_FRF_LSB]
            d == freq - (value \div 256) * 15625
            e == d * 256 - (value % 256) * 15625
        IN  /\ Frf(freq) < 2 ^ 24
            /\ Frf(freq) = value
            /\ d >= -15625 /\ d <= 15625
            /\ e > -15625 /\ e < 15625

\* C7's case: a set-up for the highest frequency of the range.
C7_Witness ==
    /\ SetupDone /\ Detected /\ freq = 1020000000
    /\ FrfTriple = <<255, 0, 0>>

\* the byte read from REG_PKT_SNR_VALUE
SnrRaw == SelectSeq(pollLog, IsSnrRead)[1][3]
SnrWasRead == SelectSeq(pollLog, IsSnrRead) # <<>>

\* C8 as claimed: a byte with bit 7 set decodes to a negative value, which is
\* -(((~raw + 1) & 0xFF) >> 2); a byte with bit 7 clear decodes to
\* (raw & 0xFF) >> 2, which is not negative.
C8_SignBitIsNegative ==
    SnrWasRead =>
        IF SnrRaw >= 128
        THEN lora_snr < 0 /\ lora_snr = -((256 - SnrRaw) \div 4)
        ELSE lora_snr >= 0 /\ lora_snr = SnrRaw \div 4

\* C8 as amended: a byte with bit 7 set decodes to -(((~raw + 1) & 0xFF) >> 2),
\* which is negative for 0x80 .. 0xFC and zero for 0xFD, 0xFE and 0xFF; a
\* byte with bit 7 clear decodes to (raw & 0xFF) >> 2, which is not negative.
C8_SnrDecoding ==
    SnrWasRead =>
        IF SnrRaw >= 128
        THEN /\ lora_snr = -((256 - SnrRaw) \div 4)
             /\ lora_snr <= 0
             /\ lora_snr < 0 <=> SnrRaw <= 252
        ELSE lora_snr >= 0 /\ lora_snr = SnrRaw \div 4

\* C8's case: the byte 0xFF, bit 7 set, decoded to zero.
C8_Witness == SnrWasRead /\ SnrRaw = 255 /\ lora_snr = 0

\* C9 as claimed: the byte 0x84 decodes to -1 and the byte 0x08 to 2.
C9_ClaimedExamples ==
    (pc = "timer" /\ SnrWasRead) =>
        /\ SnrRaw = 132 => lora_snr = -1
        /\ SnrRaw = 8 => lora_snr = 2

\* C9 as amended: the byte 0x84 decodes to -31 and the byte 0x08 to 2, and the
\* uplink frame carries the value as lsnr.
C9_SnrExamples ==
    (pc = "timer" /\ SnrWasRead) =>
        /\ SnrRaw = 132 => lora_snr = -31
        /\ SnrRaw = 8 => lora_snr = 2
        /\ Len(uplinks) = 1 /\ uplinks[1].json.lsnr = lora_snr

\* C9's case: a poll read 0x84 from REG_PKT_SNR_VALUE.
C9_Witness == pc = "timer" /\ SnrWasRead /\ SnrRaw = 132 /\ lora_snr = -31

\* C10: after a set-up that detected the chip, with spreading factor 11 or 12
\* the modem configuration left on the chip has the low data rate
\* optimisation set: bit 0 of RegModemConfig1 (0x1D) on the SX1272, bit 3 of
\* RegModemConfig3 (0x26) on the SX1276.
C10_LowDataRateOptimize ==
    (SetupDone /\ Detected /\ sf \in {SF11, SF12}) =>
        IF is_sx1272
        THEN chip[REG_MODEM_CONFIG] % 2 = SX72_MC1_LOW_DATA_RATE_OPTIMIZE
        ELSE (chip[REG_MODEM_CONFIG3] \div 8) % 2 = 1

\* the three counters the status report carries
Counters == <<cp_nb_rx_rcv, cp_nb_rx_ok, cp_up_pkt_fwd>>

\* C11: a status emission leaves the three counters at zero and reports the
\* values they had; between emissions a poll adds to cp_nb_rx_rcv the number
\* of times it read the IRQ flags and to cp_nb_rx_ok the number of frames it
\* accepted, and no other step changes a counter: a status frame counts the
\* polls made since the emission before it, and nothing else.
C11_CountersResetAtEmission ==
    [][ /\ (pc = "timer" /\ statsEmitted' = 1) =>
              /\ Counters' = <<0, 0, 0>>
              /\ status_report'.json.rxnb = cp_nb_rx_rcv
              /\ status_report'.json.rxok = cp_nb_rx_ok
              /\ status_report'.json.rxfw = cp_up_pkt_fwd
        /\ (pc = "timer" /\ statsEmitted' = 0) => Counters' = Counters
        /\ pc = "poll" =>
              /\ cp_nb_rx_rcv' = cp_nb_rx_rcv + Len(SelectSeq(pollLog', IsIrqRead))
              /\ cp_nb_rx_ok' = cp_nb_rx_ok + Len(uplinks')
              /\ cp_up_pkt_fwd' = cp_up_pkt_fwd
        /\ pc \notin {"poll", "timer"} => Counters' = <<0, 0, 0>> ]_vars

\* C11's case: a status frame that reported two polls, one of them accepted,
\* has just been emitted and the counters are back at zero.
C11_Witness ==
    /\ pc = "poll" /\ statsEmitted = 1
    /\ status_report.json.rxnb = 2 /\ status_report.json.rxok = 1
    /\ Counters = <<0, 0, 0>>

\* the poll of a log found the interrupt line asserted
LineAsserted(log) == \E i \in 1 .. Len(log) : IsLineRead(log[i]) /\ log[i][3] = 1

\* the poll of a log read IRQ flags with the CRC error flag set, or clear
CrcErrorSeen(log) ==
    \E i \in 1 .. Len(log) : IsIrqRead(log[i]) /\ (log[i][3] \div 32) % 2 = 1
CleanFrameSeen(log) ==
    \E i \in 1 .. Len(log) : IsIrqRead(log[i]) /\ (log[i][3] \div 32) % 2 = 0

\* C13: a CRC error does not stop the loop: the tick of a poll that found
\* one can always be completed, and completing it leads to the next poll; a
\* clean frame polled after CRC errors (cp_nb_rx_rcv > cp_nb_rx_ok: polls of
\* this reporting period that were not accepted) is read, counted as
\* accepted and encoded as one uplink frame.
C13_ErrorsDoNotStopTheLoop ==
    /\ [](pc = "timer" => ENABLED Timer)
    /\ [](pc = "poll" => ENABLED PollIdle)
    /\ [][ /\ (pc = "timer" /\ CrcErrorSeen(pollLog)) => pc' = "poll"
           /\ (pc = "poll" /\ cp_nb_rx_rcv > cp_nb_rx_ok /\ CleanFrameSeen(pollLog')) =>
                 /\ cp_nb_rx_rcv' = cp_nb_rx_rcv + 1
                 /\ cp_nb_rx_ok' = cp_nb_rx_ok + 1
                 /\ Len(uplinks') = 1
                 /\ receivedbytes' = Len(SelectSeq(pollLog', LAMBDA e : IsReadOf(e, REG_FIFO)))
                 /\ pc' = "timer" ]_vars

\* C13's case: in one reporting period a poll met a CRC error and a later
\* poll received, counted and encoded a clean frame.
C13_Witness ==
    /\ pc = "timer" /\ CleanFrameSeen(pollLog)
    /\ cp_nb_rx_rcv = 2 /\ cp_nb_rx_ok = 1
    /\ Len(uplinks) = 1

\* C14: every accepted frame is handed to the transport as exactly one
\* buffer, the uplink frame composed for it, in the tick that received it,
\* and every status emission hands exactly one buffer, the status frame, to
\* the transport (in a run whose set-up detected the chip).
C14_FramesReachTransport ==
    Detected =>
        /\ (pc = "timer" /\ CleanFrameSeen(pollLog)) =>
              (Len(uplinks) = 1 /\ sent = uplinks)
        /\ (pc = "timer" /\ ~CleanFrameSeen(pollLog)) => sent = <<>>
        /\ (pc = "poll" /\ statsEmitted = 1) => sent = <<status_report>>

\* C15: receiveDraginoPacket returns 1 when the call received a packet and 0
\* when it did not (in a run whose set-up detected the chip).
C15_ReturnsOneOnPacket ==
    (Detected /\ pc = "timer") =>
        pollRet = <<IF CleanFrameSeen(pollLog) /\ Len(uplinks) = 1 THEN 1 ELSE 0>>

\* chip-select is asserted right before each transfer of a log and released
\* right after it, and is touched at no other moment
OneTransferPerSelect(log) ==
    \A i \in 1 .. Len(log) :
        /\ IsSpi(log[i]) =>
              /\ i > 1 /\ log[i - 1] = <<"pin", ssPin, "LOW">>
              /\ i < Len(log) /\ log[i + 1] = <<"pin", ssPin, "HIGH">>
        /\ IsPin(log[i], ssPin, "LOW") => (i < Len(log) /\ IsSpi(log[i + 1]))
        /\ IsPin(log[i], ssPin, "HIGH") => (i > 1 /\ IsSpi(log[i - 1]))

\* C16: at most one bus transaction is in flight: in the set-up and in every
\* poll chip-select goes low for exactly one transfer and high again before
\* the next, and a poll issues transactions only after the set-up has
\* returned, its last transaction complete.
C16_OneTransactionInFlight ==
    /\ OneTransferPerSelect(setupLog)
    /\ OneTransferPerSelect(pollLog)
    /\ pollLog # <<>> =>
          /\ pc = "timer"
          /\ setupStatus # <<>>
          /\ setupLog # <<>>
          /\ setupLog[Len(setupLog)] = <<"pin", ssPin, "HIGH">>
    /\ pc = "setup" => (setupLog = <<>> /\ pollLog = <<>>)

\* C16's case: after a set-up that configured the chip, a poll has read a
\* frame of two bytes in eleven transactions.
C16_Witness ==
    /\ pc = "timer" /\ Detected
    /\ Len(SelectSeq(setupLog, IsWrite)) > 10
    /\ Len(SelectSeq(pollLog, IsSpi)) = 11

\* the events of a log that are not on chip-select
NotSelect(e) == ~(e[1] = "pin" /\ e[2] = ssPin)
\* the position of the n-th read of the version register in the set-up
VersionReadAt(n) ==
    CHOOSE i \in ReadsAt(setupLog, REG_VERSION) :
        Cardinality({j \in ReadsAt(setupLog, REG_VERSION) : j <= i}) = n
\* what the set-up does to the reset line and the delays it makes from
\* position lo to position hi of its log
ResetSteps(lo, hi) == SelectSeq(SubSeq(setupLog, lo, hi), NotSelect)

\* C17 as claimed: before the version register is read for the first time
\* the reset line is driven high, then low, then high again, each edge
\* followed by the settle delay.
C17_HighLowHighBeforeFirstRead ==
    SetupDone =>
        ResetSteps(1, VersionReadAt(1) - 1) =
            <<digitalWrite(RST, "HIGH"), delay(100), digitalWrite(RST, "LOW"), delay(100),
              digitalWrite(RST, "HIGH"), delay(100)>>

\* C17 as amended: before the version register is read for the first time
\* the reset line is driven high, then low, each edge followed by the settle
\* delay of 100 ms; it is driven low and then high, each followed by the
\* delay, only when the first read does not give 0x22, between the first
\* read and the second.
C17_ResetPulses ==
    SetupDone =>
        LET first == VersionReadAt(1)
            isRst(e) == e[1] = "pin" /\ e[2] = RST
        IN  /\ ResetSteps(1, first - 1) =
                  <<digitalWrite(RST, "HIGH"), delay(100), digitalWrite(RST, "LOW"), delay(100)>>
            /\ IF setupLog[first][3] = 34
               THEN Len(SelectSeq(setupLog, isRst)) = 2
               ELSE /\ ResetSteps(first + 1, VersionReadAt(2) - 1) =
                          <<digitalWrite(RST, "LOW"), delay(100),
                            digitalWrite(RST, "HIGH"), delay(100)>>
                    /\ Len(SelectSeq(setupLog, isRst)) = 4

\* C17's case: a set-up whose first read of the version register did not
\* give 0x22, so that the reset line was pulsed a second time.
C17_Witness ==
    /\ SetupDone
    /\ Cardinality(ReadsAt(setupLog, REG_VERSION)) = 2
    /\ setupLog[VersionReadAt(1)][3] = 18

Transfers(log) == SelectSeq(log, IsSpi)

\* C19: a poll that finds the interrupt line asserted first writes the
\* receive-done bit (0x40) to the IRQ flags, then reads the IRQ flags, and
\* adds one to cp_nb_rx_rcv.  With the CRC error flag set it then writes the
\* CRC error bit (0x20) to the IRQ flags and makes no other transfer, the
\* payload buffer and its length staying as they were.  Otherwise it reads
\* the FIFO current address, reads the byte count n, writes the FIFO pointer
\* with the address read, and reads the FIFO register exactly n times,
\* the i-th byte read going to index i of the payload buffer.
C19_PollTransferOrder ==
    [][ (pc = "poll" /\ LineAsserted(pollLog')) =>
            LET bus == Transfers(pollLog')
                fifo == {REG_FIFO, REG_FIFO_ADDR_PTR, REG_FIFO_RX_CURRENT_ADDR, REG_RX_NB_BYTES}
            IN  /\ Len(bus) >= 3
                /\ bus[1] = <<"spi", 128 + REG_IRQ_FLAGS, 64>>
                /\ IsReadOf(bus[2], REG_IRQ_FLAGS)
                /\ cp_nb_rx_rcv' = cp_nb_rx_rcv + 1
                /\ IF (bus[2][3] \div 32) % 2 = 1
                   THEN /\ Len(bus) = 3
                        /\ bus[3] = <<"spi", 128 + REG_IRQ_FLAGS, 32>>
                        /\ \A i \in 1 .. Len(bus) : (bus[i][2] % 128) \notin fifo
                        /\ lora_packet' = lora_packet
                        /\ receivedbytes' = receivedbytes
                   ELSE LET n == bus[4][3]
                        IN  /\ IsReadOf(bus[3], REG_FIFO_RX_CURRENT_ADDR)
                            /\ IsReadOf(bus[4], REG_RX_NB_BYTES)
                            /\ bus[5] = <<"spi", 128 + REG_FIFO_ADDR_PTR, bus[3][3]>>
                            /\ Len(bus) >= 5 + n
                            /\ {i \in 1 .. Len(bus) : IsReadOf(bus[i], REG_FIFO)} = 6 .. 5 + n
                            /\ \A i \in 1 .. Len(bus) :
                                  IsWrite(bus[i]) => i \in {1, 5}
                            /\ receivedbytes' = n
                            /\ \A i \in DOMAIN lora_packet :
                                  lora_packet'[i] = IF i < n THEN bus[6 + i][3] ELSE lora_packet[i]
      ]_vars

\* C19's case: a poll has read a frame of the two bytes 0x42, 0x43 from the
\* FIFO at address 16 into the payload buffer.
C19_Witness ==
    /\ pc = "timer" /\ LineAsserted(pollLog)
    /\ Len(SelectSeq(pollLog, LAMBDA e : IsReadOf(e, REG_FIFO))) = 2
    /\ chip[REG_FIFO_ADDR_PTR] = 16
    /\ receivedbytes = 2 /\ lora_packet[0] = 66 /\ lora_packet[1] = 67

\* C20: in every loop tick (of a run whose set-up detected the chip) a status
\* frame is emitted if and only if the clock read in the tick is at least
\* 30 s, in unsigned 32-bit arithmetic, past the previous emission, or past
\* the start of the program when there has been none; so two consecutive
\* emissions are at least 30 s apart.
C20_StatusEveryThirtySeconds ==
    [][ (Detected /\ pc = "timer") =>
            LET first == status_report.bytes = <<>>
                previous == IF first THEN BootTime ELSE lasttime
            IN  /\ statsEmitted' = 1 <=> IntervalElapsed(nowseconds', previous)
                /\ (statsEmitted' = 1 /\ ~first) => IntervalElapsed(lasttime', lasttime) ]_vars

\* C21: every run of the set-up ends, in exactly one of two ways: listening
\* (it returns 0) or failed (it returns -1).  When it ends listening, its
\* last two bus transfers are the write of the maximal LNA gain and then the
\* write of continuous receive to the operating-mode register, the chip
\* being left in that mode; when it fails it has written nothing.
C21_SetupEndsListeningOrFailed ==
    /\ <>SetupDone
    /\ [](SetupDone =>
            LET bus == Transfers(setupLog)
                n == Len(bus)
            IN  /\ Detected \/ DetectionFailed
                /\ ~(Detected /\ DetectionFailed)
                /\ Detected =>
                      /\ n >= 2
                      /\ bus[n - 1] = <<"spi", 128 + REG_LNA, LNA_MAX_GAIN>>
                      /\ bus[n] = <<"spi", 128 + REG_OPMODE, SX72_MODE_RX_CONTINUOS>>
                      /\ setupLog[Len(setupLog)] = unselectreceiver
                      /\ chip[REG_OPMODE] = SX72_MODE_RX_CONTINUOS
                      /\ chip[REG_LNA] = LNA_MAX_GAIN
                /\ DetectionFailed =>
                      /\ \A i \in 1 .. n : ~IsWrite(bus[i])
                      /\ chip[REG_OPMODE] = -1)

\* C21's case: a set-up that detected the SX1276 at the second read and
\* ended listening.
C21_Witness ==
    /\ SetupDone /\ Detected /\ ~is_sx1272
    /\ chip[REG_OPMODE] = SX72_MODE_RX_CONTINUOS
    /\ chip[REG_LNA] = LNA_MAX_GAIN

\* C22: in every state of the loop cp_up_pkt_fwd <= cp_nb_rx_ok <=
\* cp_nb_rx_rcv, and a step changes a counter only by adding one to it, in a
\* poll that found the interrupt line asserted, or by setting the three of
\* them to zero, in the tick that emits a status frame.
C22_CounterOrder ==
    /\ [](InLoop => (cp_up_pkt_fwd <= cp_nb_rx_ok /\ cp_nb_rx_ok <= cp_nb_rx_rcv))
    /\ [][ \A k \in 1 .. 3 :
              \/ Counters'[k] = Counters[k]
              \/ /\ pc = "poll" /\ LineAsserted(pollLog')
                 /\ Counters'[k] = Counters[k] + 1
              \/ /\ pc = "timer" /\ statsEmitted' = 1
                 /\ Counters' = <<0, 0, 0>> ]_vars

\* C22's case: in one reporting period a frame was accepted and a later poll
\* met a CRC error, so that the counters differ.
C22_Witness ==
    /\ pc = "timer" /\ CrcErrorSeen(pollLog)
    /\ Counters = <<2, 1, 0>>

\* C23: no poll is lost from the status reports or counted in them twice:
\* in every state the rxnb values of the status frames emitted so far and
\* cp_nb_rx_rcv add up to the number of polls made with the interrupt line
\* asserted, and the rxok values and cp_nb_rx_ok to the number of frames
\* accepted (the counters staying below 2^32).
C23_ReportsAccountForEveryPoll ==
    /\ tally.rxnb + cp_nb_rx_rcv = tally.polls
    /\ tally.rxok + cp_nb_rx_ok = tally.accepted

\* C23's case: three polls found the line asserted and two frames were
\* accepted; part of them has been reported, the rest is in the counters.
C23_Witness ==
    /\ tally.polls = 3 /\ tally.accepted = 2
    /\ tally.rxnb = 2 /\ tally.rxok = 1
    /\ cp_nb_rx_rcv = 1 /\ cp_nb_rx_ok = 1

=============================================================================
